---- MODULE Spec2Model ----
(***************************************************************************)
(* Weather Normalisation API (mini_weather_etl_api).                       *)
(*                                                                         *)
(* The repository consists of                                              *)
(*   - three declarative pydantic models (RawWeatherInput, Location,       *)
(*     NormalisedWeather) whose only behaviour is the validation pydantic  *)
(*     runs when an instance is constructed from untrusted data, and       *)
(*   - a FastAPI application with two health endpoints.                    *)
(* There is no function that turns a RawWeatherInput into a                *)
(* NormalisedWeather; nothing of that kind is modelled.                    *)
(*                                                                         *)
(* Numbers are integers (the models never compute with them, they only     *)
(* carry them).  Times are hours on an abstract clock.                     *)
(***************************************************************************)
EXTENDS Integers, Sequences, FiniteSets, TLC

VARIABLES
    now,    \* the wall clock read by datetime.now(timezone.utc)
    resp,   \* the most recent HTTP response the application returned
    call    \* the most recent model construction and what it gave its caller

vars == <<now, resp, call>>

(***************************************************************************)
(* Bounds.                                                                 *)
(***************************************************************************)
MaxClock == 8     \* the clock runs 0 .. MaxClock
MaxVaried == 2    \* payloads differ from a well-formed one in <= MaxVaried fields

(***************************************************************************)
(* Untrusted values handed to a model field.  One record shape for all:    *)
(*   tag  "missing"  key not in the payload                                *)
(*        "none"     None / JSON null                                      *)
(*        "num"      a number n                                            *)
(*        "str"      a string s (never numeric text, never ISO-8601 text)  *)
(*        "aware"    a datetime (or ISO-8601 text) with local time n and   *)
(*                   UTC offset off, in hours                              *)
(*        "naive"    a datetime (or ISO-8601 text) with local time n and   *)
(*                   no offset, tzinfo None                                *)
(***************************************************************************)
Missing == [tag |-> "missing", n |-> 0, s |-> "", off |-> 0]
NoneV == [tag |-> "none", n |-> 0, s |-> "", off |-> 0]
Num(x) == [tag |-> "num", n |-> x, s |-> "", off |-> 0]
Str(x) == [tag |-> "str", n |-> 0, s |-> x, off |-> 0]
Aware(t, o) == [tag |-> "aware", n |-> t, s |-> "", off |-> o]
Naive(t) == [tag |-> "naive", n |-> t, s |-> "", off |-> 0]

(***************************************************************************)
(* Field declarations.  ftype is the annotation, nullable is "| None",     *)
(* required is "no default given", default is the declared default,        *)
(* allowed is the value set of a Literal[...] annotation.                  *)
(***************************************************************************)
Required(t) ==
    [ftype |-> t, nullable |-> FALSE, required |-> TRUE,
     default |-> Missing, allowed |-> {}]

Optional(t) ==
    [ftype |-> t, nullable |-> TRUE, required |-> FALSE,
     default |-> NoneV, allowed |-> {}]

LiteralField(values, dflt) ==
    [ftype |-> "literal", nullable |-> FALSE, required |-> FALSE,
     default |-> Str(dflt), allowed |-> values]

RawWeatherInput ==
    [temperature     |-> Required("float"),
     temp_unit       |-> LiteralField({"celsius", "fahrenheit", "kelvin"}, "celsius"),
     wind_speed      |-> Required("float"),
     wind_speed_unit |-> LiteralField({"ms", "kmh", "mph"}, "ms"),
     humidity        |-> Required("int"),
     pressure        |-> Optional("float"),
     lat             |-> Required("float"),
     lon             |-> Required("float"),
     timestamp       |-> Required("datetime")]

Location ==
    [lat          |-> Required("float"),
     lon          |-> Required("float"),
     city         |-> Optional("str"),
     country_code |-> Optional("str")]

\* every field of NormalisedWeather but location, which is a nested model
NormalisedWeather ==
    [timestamp_utc      |-> Required("datetime"),
     temperature_c      |-> Required("float"),
     feels_like_c       |-> Optional("float"),
     humidity_percent   |-> Required("int"),
     wind_speed_ms      |-> Required("float"),
     wind_direction_deg |-> Optional("float"),
     pressure_hpa       |-> Optional("float"),
     weather_code       |-> Optional("str"),
     source             |-> Required("str")]

(***************************************************************************)
(* pydantic's validation of one value against one annotation.              *)
(***************************************************************************)
Ok(v) == [ok |-> TRUE, val |-> v, err |-> ""]
Err(e) == [ok |-> FALSE, val |-> Missing, err |-> e]

ValidateType(t, allowed, x) ==
    CASE t = "float" ->
            IF x.tag = "num" THEN Ok(x)
            ELSE IF x.tag = "str" THEN Err("float_parsing")
            ELSE Err("float_type")
      [] t = "int" ->
            IF x.tag = "num" THEN Ok(x)
            ELSE IF x.tag = "str" THEN Err("int_parsing")
            ELSE Err("int_type")
      [] t = "str" ->
            IF x.tag = "str" THEN Ok(x) ELSE Err("string_type")
      [] t = "literal" ->
            IF x.tag = "str" /\ x.s \in allowed THEN Ok(x)
            ELSE Err("literal_error")
      [] t = "datetime" ->
            IF x.tag \in {"aware", "naive"} THEN Ok(x)
            ELSE IF x.tag = "num" THEN Ok(Aware(x.n, 0))
            ELSE IF x.tag = "str" THEN Err("datetime_parsing")
            ELSE Err("datetime_type")

\* ValidateField with an unrecognised Literal value falling back on the default
ValidateField_defaulting(f, x) ==
    IF x.tag = "missing"
    THEN IF f.required THEN Err("missing") ELSE Ok(f.default)
    ELSE IF f.nullable /\ x.tag = "none" THEN Ok(NoneV)
    ELSE IF f.ftype = "literal" /\ ~ValidateType(f.ftype, f.allowed, x).ok
    THEN Ok(f.default)
    ELSE ValidateType(f.ftype, f.allowed, x)

ValidateField(f, x) ==
    IF x.tag = "missing"
    THEN IF f.required THEN Err("missing") ELSE Ok(f.default)
    ELSE IF f.nullable /\ x.tag = "none" THEN Ok(NoneV)
    ELSE ValidateType(f.ftype, f.allowed, x)

(***************************************************************************)
(* BaseModel construction: every field is validated, all errors are        *)
(* collected, and an instance exists only when there is no error.          *)
(* An error's loc is the path of field names, as pydantic reports it.      *)
(***************************************************************************)
NoInstance == <<>>

FieldErrors(fields, data, prefix) ==
    {[loc |-> prefix \o <<name>>, type |-> ValidateField(fields[name], data[name]).err] :
        name \in {k \in DOMAIN fields : ~ValidateField(fields[k], data[k]).ok}}

\* Outcome handing back what was built next to the errors
Outcome_partial(errors, instance) ==
    IF errors = {}
    THEN [ok |-> TRUE, exc |-> "", errors |-> {}, instance |-> instance]
    ELSE [ok |-> FALSE, exc |-> "ValidationError", errors |-> errors,
          instance |-> instance]

Outcome(errors, instance) ==
    IF errors = {}
    THEN [ok |-> TRUE, exc |-> "", errors |-> {}, instance |-> instance]
    ELSE [ok |-> FALSE, exc |-> "ValidationError", errors |-> errors,
          instance |-> NoInstance]

model_validate(fields, data) ==
    Outcome(FieldErrors(fields, data, <<>>),
            [name \in DOMAIN fields |-> ValidateField(fields[name], data[name]).val])

\* NormalisedWeather(location=..., **data): location is itself a model
NormalisedWeather_validate(loc, data) ==
    LET locErrors ==
            IF loc.tag = "missing" THEN {[loc |-> <<"location">>, type |-> "missing"]}
            ELSE IF loc.tag = "none" THEN {[loc |-> <<"location">>, type |-> "model_type"]}
            ELSE FieldErrors(Location, loc.data, <<"location">>)
        locInstance ==
            [name \in DOMAIN Location |-> ValidateField(Location[name], loc.data[name]).val]
    IN  Outcome(locErrors \cup FieldErrors(NormalisedWeather, data, <<>>),
                [location |-> locInstance,
                 fields |-> [name \in DOMAIN NormalisedWeather |->
                                ValidateField(NormalisedWeather[name], data[name]).val]])

(***************************************************************************)
(* The health router and the application.                                  *)
(***************************************************************************)
\* datetime.isoformat(): local time, then "+HH:MM" for an aware value
isoformat(dt) ==
    [local |-> dt.n,
     suffix |-> IF dt.tag = "naive" THEN ""
                ELSE IF dt.off = 0 THEN "+00:00"
                ELSE IF dt.off = 8 THEN "+08:00"
                ELSE "-05:00"]

live == [status |-> "ok"]

\* ready with the timestamp taken once, when the module is loaded
ready_frozen(clock) ==
    [status |-> "ready",
     details |-> [external_weather_api_reachable |-> TRUE,
                  timestamp_utc |-> isoformat(Aware(0, 0))]]

ready(clock) ==
    [status |-> "ready",
     details |-> [external_weather_api_reachable |-> TRUE,
                  timestamp_utc |-> isoformat(Aware(clock, 0))]]

\* the routes of health.router, included with prefix ""; no weather router
create_app == {"/health/live", "/health/ready"}

NotFound == [detail |-> "Not Found"]

Endpoint(path, clock) ==
    IF path = "/health/live" THEN live ELSE ready(clock)

(***************************************************************************)
(* Payloads: a well-formed one, and per field the other values tried.      *)
(***************************************************************************)
RawBaseline ==
    [temperature |-> Num(20), temp_unit |-> Str("fahrenheit"),
     wind_speed |-> Num(10), wind_speed_unit |-> Str("kmh"),
     humidity |-> Num(50), pressure |-> Num(1013),
     lat |-> Num(1), lon |-> Num(103), timestamp |-> Aware(12, 8)]

RawAlternatives ==
    [temperature |-> {Str("warm"), Missing},
     temp_unit |-> {Missing, Str("rankine")},
     wind_speed |-> {Num(-5), Missing},
     wind_speed_unit |-> {Missing, Str("ms"), Str("mph"), Str("kilometers_per_hour")},
     humidity |-> {Num(-1), Num(100), Num(150), Missing},
     pressure |-> {Missing},
     lat |-> {Missing},
     lon |-> {Missing},
     timestamp |-> {Naive(12), Missing}]

LocationBaseline ==
    [lat |-> Num(1), lon |-> Num(103), city |-> Str("Singapore"),
     country_code |-> Str("SG")]

LocationAlternatives ==
    [lat |-> {Missing},
     lon |-> {Str("east")},
     city |-> {Missing},
     country_code |-> {NoneV}]

NormalisedBaseline ==
    [timestamp_utc |-> Aware(4, 0), temperature_c |-> Num(20),
     feels_like_c |-> Num(19), humidity_percent |-> Num(50),
     wind_speed_ms |-> Num(3), wind_direction_deg |-> Num(90),
     pressure_hpa |-> Num(1013), weather_code |-> Str("clear"),
     source |-> Str("station")]

NormalisedAlternatives ==
    [timestamp_utc |-> {Aware(12, 8), Missing},
     temperature_c |-> {Str("warm")},
     feels_like_c |-> {Missing},
     humidity_percent |-> {Num(150), Missing},
     wind_speed_ms |-> {Num(-5)},
     wind_direction_deg |-> {NoneV},
     pressure_hpa |-> {Missing},
     weather_code |-> {Missing},
     source |-> {Missing}]

RECURSIVE VaryFrom(_, _, _, _)
VaryFrom(d, names, alts, k) ==
    IF k = 0 \/ names = {} THEN {d}
    ELSE LET name == CHOOSE x \in names : TRUE
             rest == names \ {name}
         IN  VaryFrom(d, rest, alts, k)
             \cup UNION {VaryFrom([d EXCEPT ![name] = a], rest, alts, k - 1) :
                            a \in alts[name]}

Changed(d, base) == Cardinality({name \in DOMAIN base : d[name] # base[name]})

RawPayloads == VaryFrom(RawBaseline, DOMAIN RawBaseline, RawAlternatives, MaxVaried)

LocationPayloads ==
    {[tag |-> "obj", data |-> d] :
        d \in VaryFrom(LocationBaseline, DOMAIN LocationBaseline,
                       LocationAlternatives, MaxVaried)}
    \cup {[tag |-> t, data |-> LocationBaseline] : t \in {"missing", "none"}}

LocationChanged(l) ==
    IF l.tag = "obj" THEN Changed(l.data, LocationBaseline) ELSE 1

NormalisedPayloads ==
    {p \in [location : LocationPayloads,
            data : VaryFrom(NormalisedBaseline, DOMAIN NormalisedBaseline,
                            NormalisedAlternatives, MaxVaried)] :
        LocationChanged(p.location) + Changed(p.data, NormalisedBaseline) <= MaxVaried}

Paths == create_app \cup {"/weather"}

(***************************************************************************)
(* The state machine.                                                      *)
(***************************************************************************)
NoResponse == [path |-> "", at |-> 0, status |-> 0, body |-> NotFound]
NoCall == [model |-> "", outcome |-> Outcome({}, NoInstance)]

Init ==
    /\ now = 0
    /\ resp = NoResponse
    /\ call = NoCall

Tick ==
    /\ now < MaxClock
    /\ now' = now + 1
    /\ UNCHANGED <<resp, call>>

\* GET path, dispatched by the application's route table
Get(path) ==
    /\ resp' = IF path \in create_app
               THEN [path |-> path, at |-> now, status |-> 200,
                     body |-> Endpoint(path, now)]
               ELSE [path |-> path, at |-> now, status |-> 404, body |-> NotFound]
    /\ UNCHANGED <<now, call>>

\* RawWeatherInput(**payload)
ParseRaw(payload) ==
    /\ call' = [model |-> "RawWeatherInput", data |-> payload,
                outcome |-> model_validate(RawWeatherInput, payload)]
    /\ UNCHANGED <<now, resp>>

\* NormalisedWeather(**payload).  (weather.py imports Location with
\* "from location import Location", so the class exists only where app/models
\* is on the import path; main.py never imports it.)
BuildNormalised(payload) ==
    /\ call' = [model |-> "NormalisedWeather", location |-> payload.location,
                data |-> payload.data,
                outcome |-> NormalisedWeather_validate(payload.location, payload.data)]
    /\ UNCHANGED <<now, resp>>

NextHealth == Tick \/ \E path \in Paths : Get(path)

NextModels ==
    \/ \E payload \in RawPayloads : ParseRaw(payload)
    \/ \E payload \in NormalisedPayloads : BuildNormalised(payload)

Next == NextHealth \/ NextModels

Spec == Init /\ [][Next]_vars
SpecHealth == Init /\ [][NextHealth]_vars
SpecModels == Init /\ [][NextModels]_vars

(***************************************************************************)
(* Properties.                                                             *)
(***************************************************************************)
RawCall == call.model = "RawWeatherInput"
NormalisedCall == call.model = "NormalisedWeather"
ErrorAt(name) == \E e \in call.outcome.errors : e.loc = <<name>>
Rejected == ~call.outcome.ok /\ call.outcome.instance = NoInstance

TemperatureUnits == {"celsius", "fahrenheit", "kelvin"}
WindSpeedUnits == {"ms", "kmh", "mph"}
UnknownUnit(x, units) == x.tag = "str" /\ x.s \notin units

\* some field of the payload is missing or of the wrong type
Failing(fields, data) ==
    \E name \in DOMAIN fields : ~ValidateField(fields[name], data[name]).ok

\* a raw observation: a payload that is complete and well-typed
RawObservation == RawCall /\ ~Failing(RawWeatherInput, call.data)

\* C1: a raw observation whose humidity is outside [0,100] is rejected with a
\* ValidationError naming humidity, and every canonical observation that is
\* produced has humidity_percent in [0,100].
C1_HumidityOutOfRangeRejected ==
    /\ (RawObservation /\ call.data.humidity.n \notin 0..100)
         => (Rejected /\ call.outcome.exc = "ValidationError" /\ ErrorAt("humidity"))
    /\ (NormalisedCall /\ call.outcome.ok)
         => call.outcome.instance.fields.humidity_percent.n \in 0..100

\* C2: a raw observation with wind_speed < 0 is rejected with a ValidationError
\* naming wind_speed, whatever its wind speed unit, and no canonical
\* observation has a negative wind_speed_ms.
C2_NegativeWindSpeedRejected ==
    /\ (RawObservation /\ call.data.wind_speed.n < 0)
         => (Rejected /\ call.outcome.exc = "ValidationError" /\ ErrorAt("wind_speed"))
    /\ (NormalisedCall /\ call.outcome.ok)
         => call.outcome.instance.fields.wind_speed_ms.n >= 0

\* C3: a raw observation whose timestamp carries no UTC offset is never
\* accepted; it is rejected with a ValidationError on the field timestamp.
C3_NaiveTimestampRejected ==
    (RawObservation /\ call.data.timestamp.tag = "naive")
        => (Rejected /\ call.outcome.exc = "ValidationError" /\ ErrorAt("timestamp"))

\* C6: construction is all-or-nothing: when the validation of at least one
\* field fails the caller gets only the error, never an instance, whole or
\* partial; an instance that is returned has every declared field, and every
\* field without a default holds a value.
Populated(instance, fields) ==
    /\ DOMAIN instance = DOMAIN fields
    /\ \A name \in DOMAIN fields :
          fields[name].required => instance[name].tag \notin {"missing", "none"}

C7_UnsupportedUnitError ==
    (RawCall /\ (\/ UnknownUnit(call.data.temp_unit, TemperatureUnits)
                 \/ UnknownUnit(call.data.wind_speed_unit, WindSpeedUnits)))
        => (Rejected /\ call.outcome.exc = "UnsupportedUnitError")

\* C7 (amended): a unit outside the enumeration is never replaced by the
\* default unit: the payload is rejected with a ValidationError that carries
\* a literal_error on the unit field, and nothing is produced.
C7_UnknownUnitRejected ==
    RawCall =>
        /\ UnknownUnit(call.data.temp_unit, TemperatureUnits)
             => /\ Rejected
                /\ call.outcome.exc = "ValidationError"
                /\ [loc |-> <<"temp_unit">>, type |-> "literal_error"]
                       \in call.outcome.errors
        /\ UnknownUnit(call.data.wind_speed_unit, WindSpeedUnits)
             => /\ Rejected
                /\ call.outcome.exc = "ValidationError"
                /\ [loc |-> <<"wind_speed_unit">>, type |-> "literal_error"]
                       \in call.outcome.errors

\* C7 witness: a payload whose only fault is the temperature unit "rankine"
C7_Witness ==
    /\ RawCall
    /\ call.data.temp_unit = Str("rankine")
    /\ Cardinality(call.outcome.errors) = 1

\* C9 (as stated): each health endpoint answers every call with the same
\* body, whenever it is called.
C9_HealthResponsesConstant ==
    [][\A path \in create_app :
          (resp.path = path /\ resp'.path = path) => resp'.body = resp.body]_vars

\* C9 (amended): GET /health/live always answers exactly {"status": "ok"};
\* GET /health/ready always answers status "ready" with
\* external_weather_api_reachable true, and its details.timestamp_utc is the
\* UTC time of the call, so the body differs between calls made at different
\* times.
C9_HealthResponses ==
    /\ resp.path = "/health/live"
         => (resp.status = 200 /\ resp.body = [status |-> "ok"])
    /\ resp.path = "/health/ready"
         => /\ resp.status = 200
            /\ resp.body.status = "ready"
            /\ resp.body.details.external_weather_api_reachable = TRUE
            /\ resp.body.details.timestamp_utc = [local |-> resp.at, suffix |-> "+00:00"]

\* C9 witness: a readiness response given after the clock has moved on
C9_Witness == resp.path = "/health/ready" /\ resp.at = 2 /\ now = 3

====
